---- MODULE Spec2Model ----
(***************************************************************************)
(* A model of the generic skip list of skiplist.go: the header sentinel,   *)
(* the nodes with their forward slices and backward pointer, the locator   *)
(* find, the mutators Put and Del, and the queries Get, Length,            *)
(* RangeByKey, RangeByCount and RangeByIndex.                              *)
(*                                                                         *)
(* Pointers are addresses into the memory mem; Go's slices are indexed     *)
(* from 0 and TLA+ sequences from 1, so forward[i] of the source is        *)
(* forward[i + 1] here (see Fwd).  A range result is a Go map[K]V: a       *)
(* function from the collected keys to their values.                       *)
(***************************************************************************)
EXTENDS Integers, Sequences, FiniteSets, TLC

VARIABLES sl, ret, latest, rng, race

vars == <<sl, ret, latest, rng, race>>

\* ---------------------------------------------------------------- bounds
MaxKey == 2
MaxCount == 2
\* generator streams are counted up to this many
MaxStreams == 2

\* ------------------------------------------------------------- constants
MaxLevel == 12

\* the zero values of K and V the header is built with, and that Get
\* returns next to an error
zeroK == 0
zeroV == 0

\* the most negative int; 0 - MinInt wraps back to MinInt at either width
\* of Go's int (32 bits modelled)
MinInt == (-2147483647) - 1

Nil == 0
HeaderAddr == 1

Keys == 0..MaxKey
Vals == {1, 2}
Counts == ((-MaxCount)..MaxCount) \cup {MinInt}
Starts == (-(MaxKey + 2))..(MaxKey + 1)
\* how many draws of randomLevel fall at or below the threshold before one
\* exceeds it: none, one, or enough to pass MaxLevel
DrawCounts == {0, 1, MaxLevel}

ErrNil == "nil"
ErrNotFound == "Not Found"
ErrRange == "START key is great than END key"
ErrZeroCount == "Zero COUNT"
ErrOutOfRange == "Out of range"
Panic == "panic"

EmptyMap == [k \in {} |-> zeroV]

\* ------------------------------------------------------------ the memory
\* c.forward[i]
Fwd(mem, c, i) == mem[c].forward[i + 1]

\* make([]*skiplistNode, n)
MakeForward(n) == [i \in 1..n |-> Nil]

\* c.forward[i] = p
SetFwd(mem, c, i, p) == [mem EXCEPT ![c].forward[i + 1] = p]

\* the address a freshly allocated node gets. Addresses are only ever
\* compared for equality, so which free address the allocator hands out
\* cannot be observed; it hands out the one after the key when that is
\* free and the lowest free one otherwise
NewAddr(mem, k) ==
    IF (k + 2) \notin DOMAIN mem
    THEN k + 2
    ELSE CHOOSE a \in 2..(Cardinality(DOMAIN mem) + 2) :
             /\ a \notin DOMAIN mem
             /\ \A b \in 2..(a - 1) : b \in DOMAIN mem

\* the addresses a node points to
PointsTo(mem, a) == ({mem[a].forward[i] : i \in 1..Len(mem[a].forward)}
                        \cup {mem[a].backward}) \ {Nil}

RECURSIVE Reach(_, _)
Reach(mem, S) ==
    LET T == S \cup UNION {PointsTo(mem, a) : a \in S}
    IN  IF T = S THEN S ELSE Reach(mem, T)

\* nodes no pointer leads to any more are reclaimed by the runtime
Collect(s) ==
    LET live == Reach(s.mem, {s.header} \cup ({s.tail} \ {Nil}))
    IN  [s EXCEPT !.mem = [a \in live |-> s.mem[a]]]

\* ------------------------------------------------------------------- New
New ==
    [header |-> HeaderAddr,
     tail   |-> Nil,
     level  |-> 1,
     length |-> 0,
     mem    |-> (HeaderAddr :> [key      |-> zeroK,
                                value    |-> zeroV,
                                level    |-> MaxLevel,
                                forward  |-> MakeForward(MaxLevel),
                                backward |-> Nil])]

\* ------------------------------------------------------------------ find
\* the inner loop of find walking on over a node of the key itself
RECURSIVE Advance_PastEqual(_, _, _, _)
Advance_PastEqual(mem, c, i, key) ==
    IF Fwd(mem, c, i) # Nil /\ mem[Fwd(mem, c, i)].key <= key
    THEN Advance_PastEqual(mem, Fwd(mem, c, i), i, key)
    ELSE c

\* the inner loop of find at level i, from c
RECURSIVE Advance(_, _, _, _)
Advance(mem, c, i, key) ==
    IF Fwd(mem, c, i) # Nil /\ mem[Fwd(mem, c, i)].key < key
    THEN Advance(mem, Fwd(mem, c, i), i, key)
    ELSE c

\* the outer loop of find from level i down to 0; r is what has been
\* recorded so far and c the current node
RECURSIVE FindLoop(_, _, _, _, _)
FindLoop(mem, key, i, c, r) ==
    LET c2  == Advance(mem, c, i, key)
        hit == Fwd(mem, c2, i) # Nil /\ mem[Fwd(mem, c2, i)].key = key
        r2  == [found   |-> r.found \/ hit,
                node    |-> IF hit THEN Fwd(mem, c2, i) ELSE r.node,
                updates |-> [r.updates EXCEPT ![i + 1] = c2]]
    IN  IF i = 0 THEN r2 ELSE FindLoop(mem, key, i - 1, c2, r2)

\* find that starts one level below the top
find_SkipTopLevel(s, key) ==
    FindLoop(s.mem, key, MaxLevel - 2, s.header,
             [found |-> FALSE, node |-> Nil, updates |-> MakeForward(MaxLevel)])

find(s, key) ==
    FindLoop(s.mem, key, MaxLevel - 1, s.header,
             [found |-> FALSE, node |-> Nil, updates |-> MakeForward(MaxLevel)])

\* ----------------------------------------------------------- randomLevel
\* n draws at or below the threshold raise level n times; the result is
\* capped at MaxLevel
randomLevel(n) ==
    LET level == 1 + n
    IN  IF level > MaxLevel THEN MaxLevel ELSE level

\* rand.New(rand.NewSource(time.Now().UnixNano())): one more generator
\* stream has been constructed and seeded from the clock
NewStream(r) ==
    [streams |-> IF r.streams < MaxStreams THEN r.streams + 1 ELSE r.streams]

\* ------------------------------------------------------------------- Put
\* the splice loop that leaves out the node's top level
RECURSIVE SpliceLoop_SkipTop(_, _, _, _, _)
SpliceLoop_SkipTop(mem, n, updates, i, level) ==
    IF i < level - 1
    THEN LET m1 == SetFwd(mem, n, i, Fwd(mem, updates[i + 1], i))
             m2 == SetFwd(m1, updates[i + 1], i, n)
         IN  SpliceLoop_SkipTop(m2, n, updates, i + 1, level)
    ELSE mem

\* the splice loop of Put, from level i
RECURSIVE SpliceLoop(_, _, _, _, _)
SpliceLoop(mem, n, updates, i, level) ==
    IF i < level
    THEN LET m1 == SetFwd(mem, n, i, Fwd(mem, updates[i + 1], i))
             m2 == SetFwd(m1, updates[i + 1], i, n)
         IN  SpliceLoop(m2, n, updates, i + 1, level)
    ELSE mem

PutFirst(s, k, v) ==
    LET n    == NewAddr(s.mem, k)
        node == [key |-> k, value |-> v, level |-> 1,
                 forward |-> MakeForward(1), backward |-> s.header]
        m1   == (n :> node) @@ s.mem
        m2   == SetFwd(m1, s.header, 0, n)
    IN  [s EXCEPT !.mem = m2, !.tail = n, !.length = 1]

\* the insertion that leaves the successor's backward link as it was
PutInsert_NoBackFix(s, k, v, updates, draws) ==
    LET level == randomLevel(draws)
        n     == NewAddr(s.mem, k)
        node  == [key |-> k, value |-> v, level |-> level,
                  forward |-> MakeForward(level), backward |-> Nil]
        m1    == (n :> node) @@ s.mem
        m2    == SpliceLoop(m1, n, updates, 0, level)
        m3    == [m2 EXCEPT ![n].backward = updates[1]]
        next  == Fwd(m3, n, 0)
    IN  IF next # Nil
        THEN [s EXCEPT !.mem = m3, !.length = s.length + 1]
        ELSE [s EXCEPT !.mem = m3, !.tail = n, !.length = s.length + 1]

PutInsert(s, k, v, updates, draws) ==
    LET level == randomLevel(draws)
        n     == NewAddr(s.mem, k)
        node  == [key |-> k, value |-> v, level |-> level,
                  forward |-> MakeForward(level), backward |-> Nil]
        m1    == (n :> node) @@ s.mem
        m2    == SpliceLoop(m1, n, updates, 0, level)
        m3    == [m2 EXCEPT ![n].backward = updates[1]]
        next  == Fwd(m3, n, 0)
    IN  IF next # Nil
        THEN [s EXCEPT !.mem = [m3 EXCEPT ![next].backward = n],
                       !.length = s.length + 1]
        ELSE [s EXCEPT !.mem = m3, !.tail = n, !.length = s.length + 1]

\* Put that leaves the old value of a key that is found
Put_KeepOldValue(s, k, v, draws) ==
    IF s.length = 0
    THEN PutFirst(s, k, v)
    ELSE LET f == find(s, k)
         IN  IF f.found
             THEN s
             ELSE PutInsert(s, k, v, f.updates, draws)

\* Put that counts an overwrite as an insertion
Put_CountsOverwrite(s, k, v, draws) ==
    IF s.length = 0
    THEN PutFirst(s, k, v)
    ELSE LET f == find(s, k)
         IN  IF f.found
             THEN [s EXCEPT !.mem[f.node].value = v, !.length = s.length + 1]
             ELSE PutInsert(s, k, v, f.updates, draws)

\* Put that takes a key that is found for the new tail
Put_TailOnFound(s, k, v, draws) ==
    IF s.length = 0
    THEN PutFirst(s, k, v)
    ELSE LET f == find(s, k)
         IN  IF f.found
             THEN [s EXCEPT !.mem[f.node].value = v, !.tail = f.node]
             ELSE PutInsert(s, k, v, f.updates, draws)

Put(s, k, v, draws) ==
    IF s.length = 0
    THEN PutFirst(s, k, v)
    ELSE LET f == find(s, k)
         IN  IF f.found
             THEN [s EXCEPT !.mem[f.node].value = v]
             ELSE PutInsert(s, k, v, f.updates, draws)

\* whether Put(k, v) on s calls randomLevel
DrawsLevel(s, k) == s.length # 0 /\ ~find(s, k).found

\* ------------------------------------------------------------------- Get
Get(s, key) ==
    LET f == find(s, key)
    IN  IF f.found
        THEN [val |-> s.mem[f.node].value, err |-> ErrNil]
        ELSE [val |-> zeroV, err |-> ErrNotFound]

\* ------------------------------------------------------------------- Del
\* the unlink loop of Del, from level i
RECURSIVE UnlinkLoop(_, _, _, _)
\* the unlink loop stopping after level 0
UnlinkLoop_Level0Only(mem, node, updates, i) ==
    IF i < 1
    THEN SetFwd(mem, updates[i + 1], i, Fwd(mem, node, i))
    ELSE mem

UnlinkLoop(mem, node, updates, i) ==
    IF i < mem[node].level
    THEN UnlinkLoop(SetFwd(mem, updates[i + 1], i, Fwd(mem, node, i)),
                    node, updates, i + 1)
    ELSE mem

\* Del that never moves the tail
DelFound_KeepTail(s, node, updates) ==
    LET next == Fwd(s.mem, node, 0)
        s1   == IF next # Nil
                THEN [s EXCEPT !.mem[next].backward = s.mem[node].backward]
                ELSE s
        m2   == UnlinkLoop(s1.mem, node, updates, 0)
    IN  Collect([s1 EXCEPT !.mem = m2, !.length = s.length - 1])

DelFound(s, node, updates) ==
    LET next == Fwd(s.mem, node, 0)
        s1   == IF next # Nil
                THEN [s EXCEPT !.mem[next].backward = s.mem[node].backward]
                ELSE [s EXCEPT !.tail = s.mem[node].backward]
        m2   == UnlinkLoop(s1.mem, node, updates, 0)
    IN  Collect([s1 EXCEPT !.mem = m2, !.length = s.length - 1])

\* Del that decrements the length before it looks at found
Del_DecrementFirst(s, key) ==
    LET f  == find(s, key)
        s0 == [s EXCEPT !.length = s.length - 1]
    IN  IF ~f.found
        THEN [sl |-> s0, err |-> ErrNotFound]
        ELSE [sl |-> DelFound(s, f.node, f.updates), err |-> ErrNil]

Del(s, key) ==
    LET f == find(s, key)
    IN  IF ~f.found
        THEN [sl |-> s, err |-> ErrNotFound]
        ELSE [sl |-> DelFound(s, f.node, f.updates), err |-> ErrNil]

\* ---------------------------------------------------------------- Length
Length(s) == s.length

\* --------------------------------------------------------- range queries
\* result[k] = v on a Go map
MapSet(result, k, v) == (k :> v) @@ result

\* count = 0 - count on a machine int
Negate(count) == IF count = MinInt THEN MinInt ELSE 0 - count

\* the collecting loop of RangeByKey with the end key left out
RECURSIVE KeyLoop_ExclusiveEnd(_, _, _, _)
KeyLoop_ExclusiveEnd(mem, node, end, result) ==
    IF node # Nil /\ mem[node].key < end
    THEN KeyLoop_ExclusiveEnd(mem, Fwd(mem, node, 0), end,
                              MapSet(result, mem[node].key, mem[node].value))
    ELSE result

\* the collecting loop of RangeByKey
RECURSIVE KeyLoop(_, _, _, _)
KeyLoop(mem, node, end, result) ==
    IF node # Nil /\ mem[node].key <= end
    THEN KeyLoop(mem, Fwd(mem, node, 0), end,
                 MapSet(result, mem[node].key, mem[node].value))
    ELSE result

RangeByKey(s, start, end) ==
    IF start > end
    THEN [res |-> EmptyMap, err |-> ErrRange]
    ELSE LET f    == find(s, start)
             node == IF ~f.found THEN Fwd(s.mem, f.updates[1], 0) ELSE f.node
         IN  [res |-> KeyLoop(s.mem, node, end, EmptyMap), err |-> ErrNil]

\* the collecting loop of RangeByCount without the test for the header
RECURSIVE CountLoop_NoHeaderTest(_, _, _, _, _, _)
CountLoop_NoHeaderTest(s, node, c, count, forward, result) ==
    IF node # Nil /\ c < count
    THEN CountLoop_NoHeaderTest(s,
                   IF forward THEN Fwd(s.mem, node, 0) ELSE s.mem[node].backward,
                   c + 1, count, forward,
                   MapSet(result, s.mem[node].key, s.mem[node].value))
    ELSE result

\* the collecting loop of RangeByCount
RECURSIVE CountLoop(_, _, _, _, _, _)
CountLoop(s, node, c, count, forward, result) ==
    IF node # Nil /\ node # s.header /\ c < count
    THEN CountLoop(s,
                   IF forward THEN Fwd(s.mem, node, 0) ELSE s.mem[node].backward,
                   c + 1, count, forward,
                   MapSet(result, s.mem[node].key, s.mem[node].value))
    ELSE result

RangeByCount(s, start, count) ==
    IF count = 0
    THEN [res |-> EmptyMap, err |-> ErrZeroCount]
    ELSE LET forward == ~(count < 0)
             cnt     == IF count < 0 THEN Negate(count) ELSE count
             f       == find(s, start)
             node    == IF ~f.found
                        THEN IF forward
                             THEN Fwd(s.mem, f.updates[1], 0)
                             ELSE f.updates[1]
                        ELSE f.node
         IN  [res |-> CountLoop(s, node, 0, cnt, forward, EmptyMap),
              err |-> ErrNil]

\* what a loop that dereferences nil ends in
PanicAddr == 0 - 1

\* the loop of RangeByIndex that walks forward to the start node
RECURSIVE IndexForward(_, _, _, _)
IndexForward(mem, node, i, start) ==
    IF node # Nil /\ i < start
    THEN IndexForward(mem, Fwd(mem, node, 0), i + 1, start)
    ELSE node

\* the loop of RangeByIndex that walks backward from the tail to the start
\* node
RECURSIVE IndexBackward(_, _, _, _)
IndexBackward(s, node, i, start) ==
    IF node # s.header /\ i > start
    THEN IF node = Nil
         THEN PanicAddr
         ELSE IndexBackward(s, s.mem[node].backward, i - 1, start)
    ELSE node

\* the collecting loop of RangeByIndex
RECURSIVE IndexLoop(_, _, _, _, _, _)
IndexLoop(s, node, c, count, forward, result) ==
    IF node # Nil /\ node # s.header /\ c < count
    THEN IndexLoop(s,
                   IF forward THEN Fwd(s.mem, node, 0) ELSE s.mem[node].backward,
                   c + 1, count, forward,
                   MapSet(result, s.mem[node].key, s.mem[node].value))
    ELSE result

\* the bounds test with the lower bound off by one
OutOfRange_OffByOne(s, start) == start >= s.length \/ start <= 0 - s.length

\* the bounds test of RangeByIndex
OutOfRange(s, start) == start >= s.length \/ start < 0 - s.length

RangeByIndex(s, start, count) ==
    IF count = 0
    THEN [res |-> EmptyMap, err |-> ErrZeroCount]
    ELSE IF OutOfRange(s, start)
    THEN [res |-> EmptyMap, err |-> ErrOutOfRange]
    ELSE LET forward == ~(count < 0)
             cnt     == IF count < 0 THEN Negate(count) ELSE count
             node    == IF start >= 0
                        THEN IndexForward(s.mem, Fwd(s.mem, s.header, 0), 0, start)
                        ELSE IndexBackward(s, s.tail, 0 - 1, start)
         IN  IF node = PanicAddr
             THEN [res |-> EmptyMap, err |-> Panic]
             ELSE [res |-> IndexLoop(s, node, 0, cnt, forward, EmptyMap),
                   err |-> ErrNil]

\* ----------------------------------------------------------- the machine
\* The container is used by one caller at a time (it has no locking): a
\* call runs to completion and hands its result to the caller before the
\* next call starts.  ret is the result in the caller's hands, latest the
\* caller's record of what it stored: latest[k] is the value of the last
\* Put(k, v) that no successful Del(k) followed.  rng records how many
\* generator streams were constructed since New (which constructs none).
Ret(op, a, b, err, val, res) ==
    [op |-> op, a |-> a, b |-> b, err |-> err, val |-> val, res |-> res]

Idle == Ret("idle", 0, 0, ErrNil, zeroV, EmptyMap)

\* the goroutines of the unlocked use; none is started while the caller
\* uses the container alone
Goroutines == {1, 2}

Other(g) == 3 - g

\* the draws of the unlocked calls: levels 1 and 2, so that one call can
\* overtake the other on a level above the first
RaceDraws == {0, 1}

NoKey == 0 - 1

NoRace ==
    [g |-> [x \in Goroutines |->
               [pc |-> "idle", k |-> NoKey, n |-> Nil, i |-> 0,
                updates |-> MakeForward(MaxLevel)]],
     overlap |-> FALSE]

\* goroutine g is inside Put
InCall(g) == race.g[g].pc \notin {"idle", "done"}

\* n.forward[i] = updates[i].forward[i]
SpliceRead(mem, n, updates, i) == SetFwd(mem, n, i, Fwd(mem, updates[i + 1], i))

\* updates[i].forward[i] = n
SpliceWrite(mem, n, updates, i) == SetFwd(mem, updates[i + 1], i, n)

\* the backward links without the successor's
LinkBack_NoSuccessorFix(s, n, updates) ==
    LET m3   == [s.mem EXCEPT ![n].backward = updates[1]]
        next == Fwd(m3, n, 0)
    IN  IF next # Nil
        THEN [s EXCEPT !.mem = m3]
        ELSE [s EXCEPT !.mem = m3, !.tail = n]

\* n.backward = updates[0] and the successor's backward link or the tail
LinkBack(s, n, updates) ==
    LET m3   == [s.mem EXCEPT ![n].backward = updates[1]]
        next == Fwd(m3, n, 0)
    IN  IF next # Nil
        THEN [s EXCEPT !.mem = [m3 EXCEPT ![next].backward = n]]
        ELSE [s EXCEPT !.mem = m3, !.tail = n]

Init ==
    /\ sl = New
    /\ ret = Idle
    /\ latest = EmptyMap
    /\ rng = [streams |-> 0]
    /\ race = NoRace

DoPut ==
    /\ ret = Idle
    /\ \E k \in Keys, v \in Vals, n \in DrawCounts :
        /\ sl' = Put(sl, k, v, n)
        /\ ret' = Ret("Put", k, v, ErrNil, zeroV, EmptyMap)
        /\ latest' = (k :> v) @@ latest
        /\ rng' = IF DrawsLevel(sl, k) THEN NewStream(rng) ELSE rng
        /\ UNCHANGED race

DoGet ==
    /\ ret = Idle
    /\ \E k \in Keys :
        LET g == Get(sl, k)
        IN  /\ ret' = Ret("Get", k, 0, g.err, g.val, EmptyMap)
            /\ UNCHANGED <<sl, latest, rng, race>>

DoDel ==
    /\ ret = Idle
    /\ \E k \in Keys :
        LET d == Del(sl, k)
        IN  /\ sl' = d.sl
            /\ ret' = Ret("Del", k, 0, d.err, zeroV, EmptyMap)
            /\ latest' = IF d.err = ErrNil
                          THEN [x \in (DOMAIN latest) \ {k} |-> latest[x]]
                          ELSE latest
            /\ UNCHANGED <<rng, race>>

DoLength ==
    /\ ret = Idle
    /\ ret' = Ret("Length", 0, 0, ErrNil, Length(sl), EmptyMap)
    /\ UNCHANGED <<sl, latest, rng, race>>

DoRangeByKey ==
    /\ ret = Idle
    /\ \E start \in Keys, end \in Keys :
        LET r == RangeByKey(sl, start, end)
        IN  /\ ret' = Ret("RangeByKey", start, end, r.err, zeroV, r.res)
            /\ UNCHANGED <<sl, latest, rng, race>>

DoRangeByCount ==
    /\ ret = Idle
    /\ \E start \in Keys, count \in Counts :
        LET r == RangeByCount(sl, start, count)
        IN  /\ ret' = Ret("RangeByCount", start, count, r.err, zeroV, r.res)
            /\ UNCHANGED <<sl, latest, rng, race>>

DoRangeByIndex ==
    /\ ret = Idle
    /\ \E start \in Starts, count \in Counts :
        LET r == RangeByIndex(sl, start, count)
        IN  /\ ret' = Ret("RangeByIndex", start, count, r.err, zeroV, r.res)
            /\ UNCHANGED <<sl, latest, rng, race>>

\* the caller takes the result
Return ==
    /\ ret # Idle
    /\ ret' = Idle
    /\ UNCHANGED <<sl, latest, rng, race>>

Next ==
    \/ DoPut
    \/ DoGet
    \/ DoDel
    \/ DoLength
    \/ DoRangeByKey
    \/ DoRangeByCount
    \/ DoRangeByIndex
    \/ Return

Spec == Init /\ [][Next]_vars

\* ------------------------------------------- two Put calls without a lock
\* Two goroutines call Put on the container the caller has built, with no
\* lock between them: the statements of the two calls interleave.  Each
\* goroutine g goes through Put for a key that is not stored: find and the
\* allocation of the node (GFind), then per level the two assignments of
\* the splice loop (GRead, GWrite), the backward links and the tail
\* (GBack) and the length (GLength).
GFind(g) ==
    /\ ret = Idle
    /\ race.g[g].pc = "idle"
    /\ sl.length # 0
    /\ \E k \in Keys \ ((DOMAIN latest) \cup {race.g[Other(g)].k}), n \in RaceDraws :
        LET f    == find(sl, k)
            a    == NewAddr(sl.mem, k)
            node == [key |-> k, value |-> g, level |-> randomLevel(n),
                     forward |-> MakeForward(randomLevel(n)), backward |-> Nil]
        IN  /\ ~f.found
            /\ sl' = [sl EXCEPT !.mem = (a :> node) @@ sl.mem]
            /\ rng' = NewStream(rng)
            /\ race' = [g |-> [race.g EXCEPT ![g] =
                                  [pc |-> "read", k |-> k, n |-> a, i |-> 0,
                                   updates |-> f.updates]],
                        overlap |-> race.overlap \/ InCall(Other(g))]
    /\ UNCHANGED <<ret, latest>>

GRead(g) ==
    /\ race.g[g].pc = "read"
    /\ sl' = [sl EXCEPT !.mem = SpliceRead(sl.mem, race.g[g].n,
                                            race.g[g].updates, race.g[g].i)]
    /\ race' = [race EXCEPT !.g[g].pc = "write"]
    /\ UNCHANGED <<ret, latest, rng>>

GWrite(g) ==
    /\ race.g[g].pc = "write"
    /\ sl' = [sl EXCEPT !.mem = SpliceWrite(sl.mem, race.g[g].n,
                                             race.g[g].updates, race.g[g].i)]
    /\ race' = [race EXCEPT !.g[g].i = race.g[g].i + 1,
                            !.g[g].pc = IF race.g[g].i + 1 < sl.mem[race.g[g].n].level
                                        THEN "read"
                                        ELSE "back"]
    /\ UNCHANGED <<ret, latest, rng>>

GBack(g) ==
    /\ race.g[g].pc = "back"
    /\ sl' = LinkBack(sl, race.g[g].n, race.g[g].updates)
    /\ race' = [race EXCEPT !.g[g].pc = "len"]
    /\ UNCHANGED <<ret, latest, rng>>

GLength(g) ==
    /\ race.g[g].pc = "len"
    /\ sl' = [sl EXCEPT !.length = sl.length + 1]
    /\ latest' = (race.g[g].k :> g) @@ latest
    /\ race' = [race EXCEPT !.g[g].pc = "done"]
    /\ UNCHANGED <<ret, rng>>

\* the caller builds the container, one call after the other, before it
\* starts the goroutines
BuildPut == race = NoRace /\ DoPut

BuildReturn == race = NoRace /\ Return

NextRace ==
    \/ BuildPut
    \/ BuildReturn
    \/ \E g \in Goroutines : GFind(g)
    \/ \E g \in Goroutines : GRead(g)
    \/ \E g \in Goroutines : GWrite(g)
    \/ \E g \in Goroutines : GBack(g)
    \/ \E g \in Goroutines : GLength(g)

SpecRace == Init /\ [][NextRace]_vars

\* ------------------------------------------------- what the claims refer to
StoredKeys == DOMAIN latest

\* the stored keys of S, each with its current value
Stored(S) == [k \in S \cap StoredKeys |-> latest[k]]

\* the position of a stored key in ascending order, from 0
Rank(k) == Cardinality({j \in StoredKeys : j < k})

IsRange(op) == op \in {"RangeByKey", "RangeByCount", "RangeByIndex"}

\* the nodes on the level-0 chain from the header, in order; fuel ends the
\* walk on a chain that does not end
RECURSIVE ChainFrom(_, _, _)
ChainFrom(s, node, fuel) ==
    IF node = Nil \/ fuel = 0
    THEN <<>>
    ELSE <<node>> \o ChainFrom(s, Fwd(s.mem, node, 0), fuel - 1)

Chain0(s) == ChainFrom(s, Fwd(s.mem, s.header, 0), Cardinality(DOMAIN s.mem) + 1)

\* the keys and values along the level-0 chain
ChainKV(s) ==
    [i \in 1..Len(Chain0(s)) |->
        <<s.mem[Chain0(s)[i]].key, s.mem[Chain0(s)[i]].value>>]

\* a sequence without the pairs of key k
RECURSIVE Without(_, _)
Without(seq, k) ==
    IF seq = <<>>
    THEN <<>>
    ELSE IF Head(seq)[1] = k
         THEN Without(Tail(seq), k)
         ELSE <<Head(seq)>> \o Without(Tail(seq), k)

\* ----------------------------------------------------------------- C1
GetReturnsLatest ==
    ret.op = "Get" =>
        IF ret.a \in StoredKeys
        THEN ret.err = ErrNil /\ ret.val = latest[ret.a]
        ELSE ret.err = ErrNotFound

GetStep == ret'.op = "Get" => sl' = sl

\* C1: Get(k) returns the value of the most recent Put(k, v) that no
\* successful Del(k) followed, returns Not Found for every other key, and
\* leaves the container as it was.
C1_GetReturnsLatestPut == [](GetReturnsLatest) /\ [][GetStep]_vars

\* the second value is read back from a container of two keys
C1_Witness ==
    /\ ret.op = "Get"
    /\ ret.err = ErrNil
    /\ ret.val = 2
    /\ Cardinality(StoredKeys) = 2

\* ----------------------------------------------------------------- C2
LengthCountsKeys ==
    /\ Length(sl) = Cardinality(StoredKeys)
    /\ Length(sl) = Len(Chain0(sl))

PutStep ==
    ret'.op = "Put" =>
        Length(sl') = Length(sl) + (IF ret'.a \in StoredKeys THEN 0 ELSE 1)

\* C2: Length() is the number of distinct keys stored and the number of
\* nodes on the level-0 chain; a Put of an absent key raises it by one and
\* a Put of a stored key leaves it.
C2_LengthCountsDistinctKeys == [](LengthCountsKeys) /\ [][PutStep]_vars

\* a Put fills the container up with a node of the highest level
C2_Witness ==
    /\ ret.op = "Put"
    /\ Length(sl) = MaxKey + 1
    /\ \E a \in DOMAIN sl.mem : a # sl.header /\ sl.mem[a].level = MaxLevel

\* ----------------------------------------------------------------- C3
DelStep ==
    ret'.op = "Del" =>
        IF ret'.a \in StoredKeys
        THEN /\ ret'.err = ErrNil
             /\ Length(sl') = Length(sl) - 1
             /\ Get(sl', ret'.a).err = ErrNotFound
             /\ Del(sl', ret'.a).err = ErrNotFound
             /\ ChainKV(sl') = Without(ChainKV(sl), ret'.a)
        ELSE ret'.err = ErrNotFound

\* what a deleted key looks like to every later call
GoneStep ==
    /\ ret'.op = "Get" /\ ret'.a \notin StoredKeys => ret'.err = ErrNotFound
    /\ IsRange(ret'.op) => DOMAIN ret'.res \subseteq StoredKeys

\* C3: Del of a stored key succeeds, lowers Length() by one and leaves the
\* other keys with their values in their order; until the key is put again
\* Get and Del of it return Not Found and no range query returns it.
C3_DelRemovesKey == [][DelStep /\ GoneStep]_vars

\* a key between two others was deleted
C3_Witness ==
    /\ ret.op = "Del"
    /\ ret.err = ErrNil
    /\ \E j \in StoredKeys : j < ret.a
    /\ \E j \in StoredKeys : j > ret.a

\* ----------------------------------------------------------------- C4
ErrorStep ==
    /\ ret'.err # Panic
    /\ ret' # Idle /\ ret'.err # ErrNil => sl' = sl

\* C4: a call that ends in an error leaves the header, the nodes with
\* their links and values, the tail and the length as they were, and no
\* call panics.
C4_ErrorsLeaveContainerUnchanged == [][ErrorStep]_vars

\* Del of an absent key on a container that holds keys on either side
C4_Witness ==
    /\ ret.op = "Del"
    /\ ret.err = ErrNotFound
    /\ \E j \in StoredKeys : j < ret.a
    /\ \E j \in StoredKeys : j > ret.a

\* ----------------------------------------------------------------- C5
\* C5: RangeByKey(a, b) with a <= b returns exactly the stored keys from a
\* to b with their current values, and with a > b the range error.
C5_RangeByKeyExact ==
    ret.op = "RangeByKey" =>
        IF ret.a <= ret.b
        THEN /\ ret.err = ErrNil
             /\ ret.res = Stored({k \in Keys : ret.a <= k /\ k <= ret.b})
        ELSE ret.err = ErrRange

\* a range whose two ends are not stored, with a stored key inside
C5_Witness ==
    /\ ret.op = "RangeByKey"
    /\ ret.a \notin StoredKeys
    /\ ret.b \notin StoredKeys
    /\ ret.res # EmptyMap

\* ----------------------------------------------------------------- C6
\* the count smallest stored keys from start on
SmallestFrom(start, count) ==
    {k \in StoredKeys :
        /\ k >= start
        /\ Cardinality({j \in StoredKeys : start <= j /\ j < k}) < count}

\* the |count| largest stored keys up to start, for a count below 0; the
\* magnitude of MinInt exceeds every number of keys
LargestUpTo(start, count) ==
    {k \in StoredKeys :
        /\ k <= start
        /\ \/ count = MinInt
           \/ Cardinality({j \in StoredKeys : k < j /\ j <= start}) < 0 - count}

\* C6: RangeByCount(start, count) returns the min(count, m) smallest stored
\* keys >= start when count > 0 and the min(|count|, m) largest stored keys
\* <= start when count < 0, for every nonzero count, and never the header.
C6_RangeByCountExact ==
    ret.op = "RangeByCount" /\ ret.b # 0 =>
        /\ ret.err = ErrNil
        /\ ret.res = IF ret.b > 0
                     THEN Stored(SmallestFrom(ret.a, ret.b))
                     ELSE Stored(LargestUpTo(ret.a, ret.b))

\* ----------------------------------------------------------------- C7
\* the position a valid start resolves to
Position(start) == IF start >= 0 THEN start ELSE Cardinality(StoredKeys) + start

ValidStart(start) ==
    (0 - Cardinality(StoredKeys)) <= start /\ start <= Cardinality(StoredKeys) - 1

\* the stored keys at positions p .. p + count - 1 for a count above 0 and
\* at positions p - |count| + 1 .. p for a count below 0
Selected(p, count) ==
    {k \in StoredKeys :
        IF count > 0
        THEN p <= Rank(k) /\ Rank(k) <= p + count - 1
        ELSE /\ Rank(k) <= p
             /\ (count = MinInt \/ p + count + 1 <= Rank(k))}

\* C7: RangeByIndex(start, count) with a valid start and a nonzero count
\* resolves start to position p (n + start when start < 0) and returns the
\* keys at positions p .. min(p + count - 1, n - 1) when count > 0 and at
\* max(0, p - |count| + 1) .. p when count < 0.
C7_RangeByIndexExact ==
    ret.op = "RangeByIndex" /\ ret.b # 0 /\ ValidStart(ret.a) =>
        /\ ret.err = ErrNil
        /\ ret.res = Stored(Selected(Position(ret.a), ret.b))

\* ----------------------------------------------------------------- C8
\* C8: RangeByIndex(start, count) with a nonzero count returns the
\* out-of-range error exactly when start is outside [-length, length - 1]
\* and no error otherwise; on an empty container every start is rejected.
C8_IndexOutOfRangeExact ==
    ret.op = "RangeByIndex" /\ ret.b # 0 =>
        /\ ret.err = IF (0 - Length(sl)) <= ret.a /\ ret.a <= Length(sl) - 1
                     THEN ErrNil
                     ELSE ErrOutOfRange
        /\ StoredKeys = {} => ret.err = ErrOutOfRange

\* start = -length is accepted on a container of at least two keys
C8_Witness ==
    /\ ret.op = "RangeByIndex"
    /\ ret.b # 0
    /\ Length(sl) >= 2
    /\ ret.a = 0 - Length(sl)
    /\ ret.err = ErrNil

\* ----------------------------------------------------------------- C9
\* everything a caller can see of a container
Observe(s) ==
    [length  |-> Length(s),
     get     |-> [k \in Keys |-> Get(s, k)],
     byKey   |-> [a \in Keys, b \in Keys |-> RangeByKey(s, a, b)],
     byCount |-> [a \in Keys, c \in Counts |-> RangeByCount(s, a, c)],
     byIndex |-> [a \in Starts, c \in Counts |-> RangeByIndex(s, a, c)]]

\* C9: between two calls, for every key k that is not stored, Put(k, v)
\* followed by Del(k) gives a container with the same Length(), the same
\* Get results and the same range query results as before the Put.
C9_PutDelRoundTrip ==
    ret = Idle =>
        \A k \in Keys \ StoredKeys, v \in Vals, n \in DrawCounts :
            LET d == Del(Put(sl, k, v, n), k)
            IN  d.err = ErrNil /\ Observe(d.sl) = Observe(sl)

\* a container with a stored key on either side of a key that is not stored
C9_Witness ==
    /\ ret = Idle
    /\ \E k \in Keys \ StoredKeys :
        /\ \E j \in StoredKeys : j < k
        /\ \E j \in StoredKeys : j > k

\* ---------------------------------------------------------------- C10
\* C10: a forward and a backward range query that select the same keys
\* return results that differ (the one ascending, the other descending).
C10_DirectionIsVisible ==
    Length(sl) >= 2 =>
        LET up   == RangeByIndex(sl, 0, 2)
            down == RangeByIndex(sl, 1, 0 - 2)
        IN  DOMAIN up.res = DOMAIN down.res => up.res # down.res

\* ---------------------------------------------------------------- C11
\* the node of key k
NodeOf(s, k) == CHOOSE a \in DOMAIN s.mem \ {s.header} : s.mem[a].key = k

OverwriteStep ==
    ret'.op = "Put" /\ ret'.a \in StoredKeys =>
        /\ ret'.err = ErrNil
        /\ sl' = [sl EXCEPT !.mem[NodeOf(sl, ret'.a)].value = ret'.b]

\* C11: Put(k, v) on a stored key succeeds and changes the value of the
\* node of k and nothing else: the length, the tail, the levels, every
\* forward and backward link and the set of nodes stay as they were.
C11_OverwriteChangesOnlyValue == [][OverwriteStep]_vars

\* the value of a stored key between two others was replaced
C11_Witness ==
    /\ ret.op = "Put"
    /\ Length(sl) = 3
    /\ \E j \in StoredKeys : j < ret.a
    /\ \E j \in StoredKeys : j > ret.a
    /\ sl.mem[NodeOf(sl, ret.a)].level = 2
    /\ sl.mem[NodeOf(sl, ret.a)].value = 2

\* ---------------------------------------------------------------- C12
\* the keys along the level-0 chain
ChainKeys(s) == [i \in 1..Len(Chain0(s)) |-> s.mem[Chain0(s)[i]].key]

Ascending(seq) == \A i \in 1..(Len(seq) - 1) : seq[i] < seq[i + 1]

\* C12: the level-0 chain from the header visits every stored key exactly
\* once, in strictly ascending order, and ends at nil.
C12_Level0ChainSorted ==
    /\ Len(Chain0(sl)) < Cardinality(DOMAIN sl.mem)
    /\ Ascending(ChainKeys(sl))
    /\ {ChainKeys(sl)[i] : i \in 1..Len(Chain0(sl))} = StoredKeys
    /\ Len(Chain0(sl)) = Cardinality(StoredKeys)

\* three keys are chained through nodes of three different levels
C12_Witness ==
    /\ Len(Chain0(sl)) = 3
    /\ {sl.mem[Chain0(sl)[i]].level : i \in 1..3} = {1, 2, MaxLevel}

\* ---------------------------------------------------------------- C13
\* the header followed by the level-0 chain
WithHeader(s) == <<s.header>> \o Chain0(s)

\* C13: each node's backward link is its predecessor on the level-0 chain,
\* the first node's is the header; the header has no backward link and no
\* forward link of any node leads to it.
C13_BackwardMirrorsForward ==
    /\ \A i \in 1..Len(Chain0(sl)) :
        /\ sl.mem[WithHeader(sl)[i + 1]].backward = WithHeader(sl)[i]
        /\ Fwd(sl.mem, WithHeader(sl)[i], 0) = WithHeader(sl)[i + 1]
    /\ sl.mem[sl.header].backward = Nil
    /\ \A a \in DOMAIN sl.mem : \A i \in 1..Len(sl.mem[a].forward) :
        sl.mem[a].forward[i] # sl.header
    /\ DOMAIN sl.mem = {sl.header} \cup {Chain0(sl)[i] : i \in 1..Len(Chain0(sl))}

\* a node was put between two others and the middle one deleted again
C13_Witness ==
    /\ ret.op = "Del"
    /\ ret.err = ErrNil
    /\ Len(Chain0(sl)) = 2
    /\ ret.a > sl.mem[Chain0(sl)[1]].key
    /\ ret.a < sl.mem[Chain0(sl)[2]].key

\* ---------------------------------------------------------------- C14
\* C14: tail is nil exactly when length is 0, also after the only node was
\* deleted, and otherwise the last node of the level-0 chain, which holds
\* the maximum stored key.
C14_TailIsMaximum ==
    /\ sl.tail = Nil <=> Length(sl) = 0
    /\ Length(sl) > 0 =>
        /\ sl.tail = Chain0(sl)[Len(Chain0(sl))]
        /\ \A k \in StoredKeys : k <= sl.mem[sl.tail].key

\* ---------------------------------------------------------------- C15
\* the nodes on the level-i chain from the header, in order
RECURSIVE LevelChainFrom(_, _, _, _)
LevelChainFrom(s, node, i, fuel) ==
    IF node = Nil \/ fuel = 0
    THEN <<>>
    ELSE <<node>> \o LevelChainFrom(s, Fwd(s.mem, node, i), i, fuel - 1)

LevelChain(s, i) ==
    LevelChainFrom(s, Fwd(s.mem, s.header, i), i, Cardinality(DOMAIN s.mem) + 1)

Nodes(s) == DOMAIN s.mem \ {s.header}

\* C15: every node has a level in 1..MaxLevel and that many forward slots;
\* on every level i the chain from the header is strictly ascending and
\* holds exactly the nodes of level above i; an empty container, also one
\* emptied by Del, has no header link.
C15_LevelChains ==
    /\ \A a \in Nodes(sl) :
        /\ sl.mem[a].level \in 1..MaxLevel
        /\ Len(sl.mem[a].forward) = sl.mem[a].level
    /\ {sl.mem[a].key : a \in Nodes(sl)} = StoredKeys
    /\ \A i \in 0..(MaxLevel - 1) :
        LET c == LevelChain(sl, i)
        IN  /\ Ascending([j \in 1..Len(c) |-> sl.mem[c[j]].key])
            /\ {c[j] : j \in 1..Len(c)} = {a \in Nodes(sl) : sl.mem[a].level > i}
    /\ StoredKeys = {} =>
        \A i \in 0..(MaxLevel - 1) : Fwd(sl.mem, sl.header, i) = Nil

\* the node of level 12 between two lower ones was deleted
C15_Witness ==
    /\ ret.op = "Del"
    /\ ret.err = ErrNil
    /\ Len(Chain0(sl)) = 2
    /\ sl.mem[Chain0(sl)[1]].level = 1
    /\ sl.mem[Chain0(sl)[2]].level = 2
    /\ ret.a > sl.mem[Chain0(sl)[1]].key
    /\ ret.a < sl.mem[Chain0(sl)[2]].key

\* ---------------------------------------------------------------- C16
\* the last node of level above i whose key is below key, or the header
Pred(s, i, key) ==
    LET C == {a \in Nodes(s) : s.mem[a].level > i /\ s.mem[a].key < key}
    IN  IF C = {}
        THEN s.header
        ELSE CHOOSE a \in C : \A b \in C : s.mem[b].key <= s.mem[a].key

\* C16: find(key) reports found exactly when the key is stored and then
\* returns the one node holding it; on every level it returns the last
\* node of that level's chain with a smaller key, or the header; the
\* predecessors of a found node of level L lead to it on every level
\* below L.
C16_FindLocates ==
    \A key \in Keys :
        LET f == find(sl, key)
        IN  /\ f.found <=> key \in StoredKeys
            /\ f.found =>
                /\ f.node \in Nodes(sl)
                /\ \A a \in Nodes(sl) : sl.mem[a].key = key <=> a = f.node
                /\ \A i \in 0..(sl.mem[f.node].level - 1) :
                    Fwd(sl.mem, f.updates[i + 1], i) = f.node
            /\ ~f.found => f.node = Nil
            /\ \A i \in 0..(MaxLevel - 1) : f.updates[i + 1] = Pred(sl, i, key)

\* a key is found behind a higher node, with three nodes of three levels
C16_Witness ==
    /\ Len(Chain0(sl)) = 3
    /\ sl.mem[Chain0(sl)[1]].level = 2
    /\ sl.mem[Chain0(sl)[2]].level = MaxLevel
    /\ sl.mem[Chain0(sl)[3]].level = 1
    /\ ret.op = "Get"
    /\ ret.err = ErrNil
    /\ ret.a = sl.mem[Chain0(sl)[3]].key

\* ---------------------------------------------------------------- C17
\* C17: the generator stream is constructed once, at New, and later level
\* draws only advance it: no call after New constructs or seeds a stream.
C17_StreamCreatedOnce == [][rng'.streams = rng.streams]_vars

\* ---------------------------------------------------------------- C18
\* what the last call shows of the zero key
ZeroKeyResult ==
    /\ ret.op = "Put" /\ ret.a = zeroK =>
        Get(sl, zeroK) = [val |-> ret.b, err |-> ErrNil]
    /\ ret.op = "Get" /\ ret.a = zeroK =>
        IF zeroK \in StoredKeys
        THEN ret.err = ErrNil /\ ret.val = latest[zeroK]
        ELSE ret.err = ErrNotFound
    /\ ret.op = "Del" /\ ret.a = zeroK /\ ret.err = ErrNil =>
        Get(sl, zeroK).err = ErrNotFound
    /\ IsRange(ret.op) /\ zeroK \in DOMAIN ret.res =>
        zeroK \in StoredKeys /\ ret.res[zeroK] = latest[zeroK]
    /\ ret.op = "RangeByKey" /\ ret.a = zeroK /\ zeroK \in StoredKeys =>
        zeroK \in DOMAIN ret.res
    /\ ret.op = "RangeByCount" /\ ret.a = zeroK /\ ret.b \notin {0, MinInt} =>
        (zeroK \in DOMAIN ret.res <=> zeroK \in StoredKeys)

\* C18: the zero key, which the header is built with, is put, found,
\* deleted and ranged over like any other key, an absent zero key is Not
\* Found, and the header is never the match of find nor a range item.
C18_ZeroKeyIsOrdinary ==
    /\ find(sl, zeroK).found <=> zeroK \in StoredKeys
    /\ find(sl, zeroK).node # sl.header
    /\ ZeroKeyResult

\* a backward range from the zero key, which is not stored, next to a
\* stored key
C18_Witness ==
    /\ ret.op = "RangeByCount"
    /\ ret.a = zeroK
    /\ ret.b < 0
    /\ zeroK \notin StoredKeys
    /\ StoredKeys # {}
    /\ ret.res = EmptyMap

\* ---------------------------------------------------------------- C19
\* how many stored keys a backward query from the last call's start can
\* collect at most
Available ==
    IF ret.op = "RangeByCount"
    THEN Cardinality({k \in StoredKeys : k <= ret.a})
    ELSE Position(ret.a) + 1

\* C19: a backward RangeByCount or RangeByIndex returns min(|count|,
\* number of keys available backward) items for every negative count, the
\* most negative one included.
C19_NegativeCountCollects ==
    /\ ret.op \in {"RangeByCount", "RangeByIndex"}
    /\ ret.b < 0
    /\ ret.err = ErrNil
    => Cardinality(DOMAIN ret.res) =
           IF ret.b = MinInt \/ Available < 0 - ret.b
           THEN Available
           ELSE 0 - ret.b

\* ---------------------------------------------------------------- C20
\* no goroutine is inside Put
Quiet == \A g \in Goroutines : ~InCall(g)

\* Length() counts every key that was put, but one of them is not on the
\* level-0 chain, or a backward link is not the level-0 predecessor
Damaged ==
    /\ Length(sl) = Cardinality(StoredKeys)
    /\ \/ \E k \in StoredKeys : \A i \in 1..Len(Chain0(sl)) : ChainKeys(sl)[i] # k
       \/ \E i \in 1..Len(Chain0(sl)) :
              sl.mem[WithHeader(sl)[i + 1]].backward # WithHeader(sl)[i]

\* C20: a container whose length counts both keys while one is missing
\* from the level-0 chain, or whose backward chain does not mirror the
\* forward chain, is reached only when one Put looked up its predecessors
\* while the other was inside Put; calls that run one after the other
\* never reach it.
C20_DamageNeedsInterleaving == Quiet /\ Damaged => race.overlap

\* both unlocked calls have returned and the container is damaged
C20_Witness ==
    /\ \A g \in Goroutines : race.g[g].pc = "done"
    /\ race.overlap
    /\ Damaged

====
